---------------------------- MODULE Spec2Model ----------------------------
(***************************************************************************)
(* A model of the DJI thermal tool: the three stage pipeline of main.py    *)
(* (extract_metadata.py, jpg2tiff.py, copy_metadata.py).                   *)
(*                                                                         *)
(* The module holds several specifications over one set of variables.      *)
(* Each specification drives one part of the program and keeps the         *)
(* variables of the other parts at their idle values:                      *)
(*   SpecDim     dimension recovery of ImageProcessor._process_raw_image   *)
(*   SpecFilter  tag filtering of MetadataProcessor.extract_metadata       *)
(*   SpecStore   save_to_txt / _load_metadata and the tag vocabulary       *)
(*   SpecRouter  MetadataProcessor.process_folder (the file router)        *)
(*   SpecDecode  ImageProcessor._process_single_folder                     *)
(*   SpecPair    MetadataCopier._find_matching_pairs                       *)
(*   SpecReattach  MetadataCopier.process_all and process_folder           *)
(*   SpecScratch  the temporary files of the extraction stage              *)
(*   SpecCache   ImageProcessor._last_thermal_size across two runs         *)
(*   SpecPipe    ProcessManager.run_all over the subfolders                *)
(*                                                                         *)
(* Python strings are TLA+ strings; a character is a string of length 1.   *)
(***************************************************************************)
EXTENDS Integers, Sequences, FiniteSets, TLC

VARIABLES
    \* ---- jpg2tiff.py, _process_raw_image ----
    actual_pixels,   \* img_data.size: samples in the raw buffer
    declared,        \* <<width, height>> of the source image (img.size)
    dpc,             \* position in _process_raw_image
    new_width,       \* loop variable of the divisor search
    new_height,      \* loop variable of the divisor search
    shape,           \* <<rows, columns>> the buffer was reshaped to
    searched,        \* the branch of line 274 was taken in this call
    \* ---- extract_metadata.py, extract_metadata ----
    tool_data,       \* what the metadata tool printed for the image (line 142)
    metadata,        \* the value extract_metadata returned
    all_tags,        \* MetadataProcessor.all_tags, the tag vocabulary
    \* ---- extract_metadata.py save_to_txt, copy_metadata.py _load_metadata ----
    all_metadata,    \* the records of the folder being extracted (line 278)
    metadata_txt,    \* the folder's metadata.txt
    metadata_dict,   \* what _load_metadata returned for the folder
    spc,             \* position in the folder's extract / save / load cycle
    sfolder,         \* number of the subfolder being processed
    \* ---- main.py, run_all ----
    subfolders,      \* number of subfolders of the root directory
    stage,           \* position of run_all: the stage running, done or raised
    pfolder,         \* index of the next subfolder of the stage's loop
    attempted,       \* per stage, the subfolders whose processing was started
    failed,          \* per stage, the subfolders whose processing failed
    \* ---- one subfolder (the Folder Working Set) ----
    platform,        \* "Linux" or "Windows": how Path.glob and the file
                     \* system compare names
    dirs,            \* the directories of the subfolder that exist
    top,             \* the files at the subfolder's top level: name -> content
    input_dir,       \* the files of input_dir/: name -> content
    other,           \* the files of other/: name -> content
    out_dir,         \* the files of out_dir/: name -> content
    \* ---- copy_metadata.py, _find_matching_pairs ----
    matches,         \* the pairs _find_matching_pairs returned
    ppc,             \* position of the pairing
    \* ---- extract_metadata.py, process_folder ----
    usable,          \* the contents the metadata tool yields a retained tag for
    moved,           \* the names the last call moved (shutil.move returned)
    skipped,         \* the names the last call reported "Skipping existing file"
    move_errors,     \* the names whose shutil.move raised in the last call
    runs,            \* number of calls of process_folder on the subfolder
    \* ---- jpg2tiff.py, process_subfolders and _process_single_folder ----
    sdk_out,         \* per image of input_dir/: what the decoder does with it
    todo,            \* the images of image_files not converted yet
    temp_files,      \* the files of temp_dir/
    decode_pc,       \* position in _process_single_folder
    exception,       \* the exception that left _process_single_folder
    folders_total,   \* number of subfolders of the parent directory
    folders_done,    \* number of subfolders whose processing has returned
    destroyed,       \* the names _create_directory removed with out_dir/ (line 201)
    \* ---- copy_metadata.py, process_all and process_folder ----
    exiftool_available, \* MetadataCopier.exiftool_available
    rpc,             \* position in process_folder
    pending,         \* the pairs of matches the loop has not reached yet
    success_count,   \* success_count of process_folder
    result,          \* the tuple process_folder returned
    handled,         \* per pair the loop has reached: what was done with it
    temp_args,       \* the pairs whose temporary argument file exists
    copy_total,      \* number of subfolders of the root directory
    copy_done,       \* number of subfolders process_folder has returned for
    \* ---- extract_metadata.py, the scratch files of the extraction stage ----
    scratch_pc,      \* position of the stage: constructor, per-image call, end
    self_temp_dir,   \* the per-run temporary directory self.temp_dir exists
    temp_jpg,        \* the temporary copies present in self.temp_dir
    exiftool_runs,   \* "exiftool -ver" succeeds (line 87)
    jpg_queue,       \* the extract_metadata calls still to make
    extracted,       \* the calls that returned a record
    \* ---- jpg2tiff.py, the class attribute _last_thermal_size, in two runs ----
    last_thermal_size, \* per run: ImageProcessor._last_thermal_size
    image,           \* the image both runs convert: buffer length, declared size
    recovered,       \* per run: the size _process_raw_image recovered for it
    earlier          \* per run: the number of images converted before

dimVars == <<actual_pixels, declared, dpc, new_width, new_height, shape, searched>>
filterVars == <<tool_data, metadata>>
storeVars == <<all_metadata, metadata_txt, metadata_dict, spc, sfolder>>

pipeVars == <<subfolders, stage, pfolder, attempted, failed>>
folderVars == <<platform, dirs, top, input_dir, other, out_dir>>
pairVars == <<matches, ppc>>
routerVars == <<usable, moved, skipped, move_errors, runs>>
decodeVars == <<sdk_out, todo, temp_files, decode_pc, exception, folders_total,
                folders_done,
               destroyed>>
reattachVars == <<exiftool_available, rpc, pending, success_count, result, handled,
                  temp_args, copy_total, copy_done>>

scratchVars == <<scratch_pc, self_temp_dir, temp_jpg, exiftool_runs, jpg_queue, extracted>>

cacheVars == <<last_thermal_size, image, recovered, earlier>>

vars == <<dimVars, filterVars, all_tags, storeVars, pipeVars, folderVars, pairVars,
          routerVars,
          decodeVars,
          reattachVars,
          scratchVars,
          cacheVars>>

\* What each part of the program leaves alone.
dimOthers == <<filterVars, all_tags, storeVars, pipeVars, folderVars, pairVars,
               routerVars,
          decodeVars,
          reattachVars,
          scratchVars,
          cacheVars>>
filterOthers == <<dimVars, storeVars, pipeVars, folderVars, pairVars, routerVars,
          decodeVars,
          reattachVars,
          scratchVars,
          cacheVars>>
storeOthers == <<dimVars, filterVars, pipeVars, folderVars, pairVars, routerVars,
          decodeVars,
          reattachVars,
          scratchVars,
          cacheVars>>
pipeOthers == <<dimVars, filterVars, all_tags, storeVars, folderVars, pairVars,
                routerVars,
          decodeVars,
          reattachVars,
          scratchVars,
          cacheVars>>
pairOthers == <<dimVars, filterVars, all_tags, storeVars, pipeVars, routerVars,
          decodeVars,
          reattachVars,
          scratchVars,
          cacheVars>>
routerOthers == <<dimVars, filterVars, pipeVars, pairVars, out_dir, metadata_dict,
                  spc, sfolder,
          decodeVars,
          reattachVars,
          scratchVars,
          cacheVars>>

decodeOthers == <<dimVars, filterVars, all_tags, storeVars, pipeVars, pairVars,
                  routerVars, top, other,
          reattachVars,
          scratchVars,
          cacheVars>>

reattachOthers == <<dimVars, filterVars, all_tags, pipeVars, routerVars, decodeVars,
                    top, other, all_metadata, spc, sfolder, ppc,
          scratchVars,
          cacheVars>>

scratchOthers == <<dimVars, filterVars, all_tags, storeVars, pipeVars, folderVars, pairVars,
                  routerVars, decodeVars, reattachVars,
          cacheVars>>

cacheOthers == <<dimVars, filterVars, all_tags, storeVars, pipeVars, folderVars, pairVars,
                routerVars, decodeVars, reattachVars, scratchVars>>

(***************************************************************************)
(* Bounds of the model.                                                    *)
(***************************************************************************)
MaxPixels == 12
MaxSide == 4
MaxToolTags == 2
MaxRecords == 2
MaxStoreFolders == 2
MaxFolders == 3
MaxDirFiles == 3
MaxFiles == 3
MaxRuns == 2
MaxUnusable == 1
MaxSamples == 3
MaxImages == 2
MaxDecodeFolders == 2
MaxCopyFolders == 2
MaxScratchImages == 2
MaxCachePixels == 4
MaxCacheSide == 3
MaxEarlier == 1

\* Python values that are either None or an object carry their kind.
None == [kind |-> "None"]
Pending == [kind |-> "pending"]
Dict(d) == [kind |-> "dict", d |-> d]

(***************************************************************************)
(* The idle values of each part's variables.                               *)
(***************************************************************************)
DimIdle ==
    /\ actual_pixels = 0
    /\ declared = <<1, 1>>
    /\ dpc = "idle"
    /\ new_width = 0
    /\ new_height = 0
    /\ shape = <<0, 0>>
    /\ searched = FALSE

FilterIdle ==
    /\ tool_data = [status |-> "idle"]
    /\ metadata = None

TagsIdle == all_tags = {"ImageName"}

Absent == [kind |-> "absent"]
File(lines) == [kind |-> "file", lines |-> lines]

StoreIdle ==
    /\ all_metadata = <<>>
    /\ metadata_txt = Absent
    /\ metadata_dict = None
    /\ spc = "idle"
    /\ sfolder = 0

\* A directory without files.
EmptyDir == [n \in {} |-> ""]

FolderIdle ==
    /\ platform = "Linux"
    /\ dirs = {}
    /\ top = EmptyDir
    /\ input_dir = EmptyDir
    /\ other = EmptyDir
    /\ out_dir = EmptyDir

PairIdle ==
    /\ matches = {}
    /\ ppc = "idle"

RouterIdle ==
    /\ usable = {}
    /\ moved = {}
    /\ skipped = {}
    /\ move_errors = {}
    /\ runs = 0

DecodeIdle ==
    /\ sdk_out = EmptyDir
    /\ todo = {}
    /\ temp_files = {}
    /\ decode_pc = "idle"
    /\ exception = None
    /\ folders_total = 0
    /\ folders_done = 0
    /\ destroyed = {}

\* No pair.
NoPairs == [p \in {} |-> None]

ReattachIdle ==
    /\ exiftool_available = TRUE
    /\ rpc = "idle"
    /\ pending = {}
    /\ success_count = 0
    /\ result = None
    /\ handled = NoPairs
    /\ temp_args = {}
    /\ copy_total = 0
    /\ copy_done = 0

\* No extraction stage is running.
ScratchIdle ==
    /\ scratch_pc = "idle"
    /\ self_temp_dir = FALSE
    /\ temp_jpg = {}
    /\ exiftool_runs = TRUE
    /\ jpg_queue = <<>>
    /\ extracted = 0

\* The two runs that are compared.
CacheRuns == {1, 2}

\* The class has no attribute _last_thermal_size (line 271).
Unset == [kind |-> "unset"]

\* No run converts an image.
CacheIdle ==
    /\ last_thermal_size = [r \in CacheRuns |-> Unset]
    /\ image = None
    /\ recovered = [r \in CacheRuns |-> None]
    /\ earlier = [r \in CacheRuns |-> 0]

Stages == {"extract", "decode", "reattach"}

PipeIdle ==
    /\ subfolders = 0
    /\ stage = "idle"
    /\ pfolder = 0
    /\ attempted = [st \in Stages |-> {}]
    /\ failed = [st \in Stages |-> {}]

(***************************************************************************)
(* Integer helpers.                                                        *)
(***************************************************************************)
\* int(a / b) of Python for a >= 0 and b # 0: true division, then truncation
\* towards zero.
TruncDiv(a, b) ==
    IF b > 0 THEN a \div b ELSE -(a \div (-b))

\* int(np.sqrt(x)) for the rational x = num / den >= 0: the largest k with
\* k * k * den <= num.
FloorSqrt(num, den) ==
    CHOOSE k \in 0..num : k * k * den <= num /\ (k + 1) * (k + 1) * den > num

(***************************************************************************)
(* Python str operations. The characters of the model are those of Ascii,  *)
(* listed by code point.                                                   *)
(***************************************************************************)
Ascii == " +,-.0123456789:ABCDEFGHIJKLMNOPQRSTUVWXYZ_abcdefghijklmnopqrstuvwxyz"
UpperCase == "ABCDEFGHIJKLMNOPQRSTUVWXYZ"
LowerCase == "abcdefghijklmnopqrstuvwxyz"
Digits == "0123456789"

Char(s, i) == SubSeq(s, i, i)

RECURSIVE IndexFrom(_, _, _)
\* s.find(c, i - 1) + 1 for a character c: its first position in s from
\* position i on, 0 when absent.
IndexFrom(c, s, i) ==
    IF i > Len(s) THEN 0
    ELSE IF Char(s, i) = c THEN i
    ELSE IndexFrom(c, s, i + 1)

\* s.find(c) + 1
IndexIn(c, s) == IndexFrom(c, s, 1)

RECURSIVE LastIndexFrom(_, _, _)
\* s.rfind(c, 0, i) + 1: the last position of c in s up to position i.
LastIndexFrom(c, s, i) ==
    IF i < 1 THEN 0
    ELSE IF Char(s, i) = c THEN i
    ELSE LastIndexFrom(c, s, i - 1)

\* s.rfind(c) + 1
LastIndexIn(c, s) == LastIndexFrom(c, s, Len(s))

\* The characters of the model.
Chars == {Char(Ascii, i) : i \in 1..Len(Ascii)}

\* ord(c), counted from the first character of the model.
OrdTable == [c \in Chars |-> IndexIn(c, Ascii)]
Ord(c) == OrdTable[c]

\* c.lower() and c.upper() for every character of the model.
LowerTable ==
    [c \in Chars |->
        LET i == IndexIn(c, UpperCase) IN IF i = 0 THEN c ELSE Char(LowerCase, i)]
UpperTable ==
    [c \in Chars |->
        LET i == IndexIn(c, LowerCase) IN IF i = 0 THEN c ELSE Char(UpperCase, i)]

LowerChar(c) == LowerTable[c]

UpperChar(c) == UpperTable[c]

RECURSIVE Lower(_)
\* s.lower()
Lower(s) == IF s = "" THEN "" ELSE LowerChar(Head(s)) \o Lower(Tail(s))

RECURSIVE Upper(_)
\* s.upper()
Upper(s) == IF s = "" THEN "" ELSE UpperChar(Head(s)) \o Upper(Tail(s))

\* s.startswith(p)
StartsWith(s, p) == Len(p) <= Len(s) /\ SubSeq(s, 1, Len(p)) = p

\* s.endswith(p)
EndsWith(s, p) ==
    Len(p) <= Len(s) /\ SubSeq(s, Len(s) - Len(p) + 1, Len(s)) = p

\* sub in s
Contains(s, sub) ==
    \E i \in 1..(Len(s) - Len(sub) + 1) : SubSeq(s, i, i + Len(sub) - 1) = sub

RECURSIVE LStrip(_, _)
\* s.lstrip(c) for a character c: every leading c is removed.
LStrip(s, c) ==
    IF s # "" /\ Head(s) = c THEN LStrip(Tail(s), c) ELSE s

RECURSIVE RStrip(_, _)
RStrip(s, c) ==
    IF s # "" /\ Char(s, Len(s)) = c
       THEN RStrip(SubSeq(s, 1, Len(s) - 1), c)
       ELSE s

\* s.strip(): leading and trailing whitespace is removed. The whitespace of
\* the model is the space; a line read from a file also loses its "\n".
Strip(s) == RStrip(LStrip(s, " "), " ")

RECURSIVE Split(_, _)
\* s.split(c) for a character c.
Split(s, c) ==
    LET i == IndexIn(c, s)
    IN  IF i = 0
           THEN <<s>>
           ELSE <<SubSeq(s, 1, i - 1)>> \o Split(SubSeq(s, i + 1, Len(s)), c)

\* s.split(c, 1) for a character c that occurs in s.
SplitOnce(s, c) ==
    LET i == IndexIn(c, s)
    IN  <<SubSeq(s, 1, i - 1), SubSeq(s, i + 1, Len(s))>>

RECURSIVE Join(_, _)
\* c.join(seq)
Join(seq, c) ==
    IF seq = <<>> THEN ""
    ELSE IF Len(seq) = 1 THEN seq[1]
    ELSE seq[1] \o c \o Join(Tail(seq), c)

RECURSIVE LessStr(_, _)
\* a < b for two str: by code point, a proper prefix first.
LessStr(a, b) ==
    IF b = "" THEN FALSE
    ELSE IF a = "" THEN TRUE
    ELSE IF Head(a) = Head(b) THEN LessStr(Tail(a), Tail(b))
    ELSE Ord(Head(a)) < Ord(Head(b))

RECURSIVE Sorted(_)
\* sorted(list(S)) for a set S of str.
Sorted(S) ==
    IF S = {} THEN <<>>
    ELSE LET m == CHOOSE x \in S : \A y \in S \ {x} : LessStr(x, y)
         IN  <<m>> \o Sorted(S \ {m})

RECURSIVE NatToStr(_)
NatToStr(n) ==
    IF n < 10 THEN Char(Digits, n + 1)
    ELSE NatToStr(n \div 10) \o Char(Digits, (n % 10) + 1)

\* str(value) for a value of the tool's JSON output: a str stays as it is,
\* an int is written in decimal.
PyStr(value) ==
    IF value.type = "int"
       THEN (IF value.v < 0 THEN "-" \o NatToStr(-value.v) ELSE NatToStr(value.v))
       ELSE value.v

StrVal(s) == [type |-> "str", v |-> s]
IntVal(n) == [type |-> "int", v |-> n]

Range(f) == {f[x] : x \in DOMAIN f}

(***************************************************************************)
(* jpg2tiff.py: _process_raw_image, lines 261-285.                         *)
(***************************************************************************)
\* line 276: new_height = int(np.sqrt(actual_pixels / ratio)), with
\* ratio = width / height (line 275).
SeedHeight(n, w, h) == FloorSqrt(n * h, w)

\* line 274: the buffer does not have the declared number of samples.
NeedsSearch(n, w, h) == n # w * h

\* line 285: img_data.reshape(height, width): rows first.
ReshapeTransposed(h, w) == <<w, h>>
Reshape(h, w) == <<h, w>>

DimInit ==
    /\ actual_pixels \in 0..MaxPixels
    /\ declared \in (1..MaxSide) \X (1..MaxSide)
    /\ dpc = "start"
    /\ new_width = 0
    /\ new_height = 0
    /\ shape = <<0, 0>>
    /\ searched = FALSE
    /\ FilterIdle
    /\ TagsIdle
    /\ StoreIdle
    /\ PipeIdle
    /\ FolderIdle
    /\ PairIdle
    /\ RouterIdle
    /\ DecodeIdle
    /\ ReattachIdle
    /\ ScratchIdle
    /\ CacheIdle

\* lines 263-272, and the test of line 274 when it fails: the declared
\* dimensions are used and the buffer is reshaped (line 285).
UseDeclared ==
    /\ dpc = "start"
    /\ ~NeedsSearch(actual_pixels, declared[1], declared[2])
    /\ shape' = Reshape(declared[2], declared[1])
    /\ dpc' = "done"
    /\ UNCHANGED <<actual_pixels, declared, new_width, new_height, searched>>
    /\ UNCHANGED dimOthers

\* lines 274-277: the seed of the search. int(actual_pixels / new_height)
\* raises ZeroDivisionError when the seed height is 0.
SeedSearch ==
    /\ dpc = "start"
    /\ NeedsSearch(actual_pixels, declared[1], declared[2])
    /\ searched' = TRUE
    /\ LET seed == SeedHeight(actual_pixels, declared[1], declared[2])
       IN  /\ new_height' = seed
           /\ IF seed = 0
                 THEN /\ dpc' = "ZeroDivisionError"
                      /\ UNCHANGED new_width
                 ELSE /\ dpc' = "search"
                      /\ new_width' = TruncDiv(actual_pixels, seed)
    /\ UNCHANGED <<actual_pixels, declared, shape>>
    /\ UNCHANGED dimOthers

\* lines 279-281: one iteration of the while loop.
SearchStep ==
    /\ dpc = "search"
    /\ new_width * new_height # actual_pixels
    /\ new_height' = new_height - 1
    /\ IF new_height - 1 = 0
          THEN /\ dpc' = "ZeroDivisionError"
               /\ UNCHANGED new_width
          ELSE /\ dpc' = "search"
               /\ new_width' = TruncDiv(actual_pixels, new_height - 1)
    /\ UNCHANGED <<actual_pixels, declared, shape, searched>>
    /\ UNCHANGED dimOthers

\* lines 279, 283-285: the loop ends and the buffer is reshaped.
SearchDone ==
    /\ dpc = "search"
    /\ new_width * new_height = actual_pixels
    /\ shape' = Reshape(new_height, new_width)
    /\ dpc' = "done"
    /\ UNCHANGED <<actual_pixels, declared, new_width, new_height, searched>>
    /\ UNCHANGED dimOthers

DimNext == UseDeclared \/ SeedSearch \/ SearchStep \/ SearchDone

SpecDim == DimInit /\ [][DimNext]_vars

(***************************************************************************)
(* extract_metadata.py: extract_metadata, lines 121-185.                   *)
(***************************************************************************)
\* line 149
keywords == {"dji", "gps", "image", "rtk", "thermal"}

\* lines 156-160
skip_tags == {"SourceFile", "Directory", "FileSize", "FileModifyDate",
              "FileAccessDate", "FileInodeChangeDate"}

\* The tags the metadata tool reports in the model, as it names them with
\* -G: <group>:<name>, and SourceFile without a group.
TagTable ==
    { [full |-> "EXIF:GPSLatitude", group |-> "EXIF", name |-> "GPSLatitude"],
      [full |-> "EXIF:FileSize", group |-> "EXIF", name |-> "FileSize"],
      [full |-> "XMP:Make", group |-> "XMP", name |-> "Make"],
      [full |-> "XMP:RtkFlag", group |-> "XMP", name |-> "RtkFlag"],
      [full |-> "XMP:ImageSource", group |-> "XMP", name |-> "ImageSource"],
      [full |-> "APP4:ThermalData", group |-> "APP4", name |-> "ThermalData"],
      [full |-> "MakerNotes:DJI-Model", group |-> "MakerNotes", name |-> "DJI-Model"],
      [full |-> "File:FileModifyDate", group |-> "File", name |-> "FileModifyDate"] }

ToolTags == {r.full : r \in TagTable} \cup {"SourceFile"}

\* The values the tool reports in the model.
ToolValues == {StrVal("+1.5"), StrVal("++2"), IntVal(640)}

\* The outputs of one run of the tool on an image: it fails (a non-zero
\* exit, line 139), it prints an empty list (line 143), or it prints one
\* object with at most MaxToolTags tags.
ToolOutputs ==
    {[status |-> "CalledProcessError"], [status |-> "EmptyList"]} \cup
    { [status |-> "ok", obj |-> o] :
        o \in UNION { [S -> ToolValues] :
                      S \in {T \in SUBSET ToolTags : Cardinality(T) <= MaxToolTags} } }

\* line 164, written with the lower-cased tag as the source does.
MatchesKeywordCaseSensitive(tag) == \E keyword \in keywords : Contains(tag, keyword)
MatchesKeyword(tag) == \E keyword \in keywords : Contains(Lower(tag), keyword)

\* lines 152-164: the tags of the tool's object that are retained.
Retained(obj) ==
    { tag_full_name \in DOMAIN obj :
        /\ Contains(tag_full_name, ":")
        /\ tag_full_name \notin skip_tags
        /\ MatchesKeyword(SplitOnce(tag_full_name, ":")[2]) }

\* line 165: full_tag = f"{group}.{tag}"
FullTag(tag_full_name) ==
    LET parts == SplitOnce(tag_full_name, ":") IN parts[1] \o "." \o parts[2]

\* lines 147-168: the dictionary built for an image. No two tags of the
\* model have the same full_tag.
BuildMetadata(jpg_name, obj) ==
    LET kept == Retained(obj)
    IN  [ f \in {"ImageName"} \cup {FullTag(t) : t \in kept} |->
            IF f = "ImageName"
               THEN jpg_name
               ELSE LStrip(PyStr(obj[CHOOSE t \in kept : FullTag(t) = f]), "+") ]

\* lines 132-179: the value extract_metadata returns for the tool's output.
ExtractMetadata(jpg_name, out) ==
    IF out.status # "ok" THEN None
    ELSE IF Cardinality(DOMAIN BuildMetadata(jpg_name, out.obj)) <= 1 THEN None
    ELSE Dict(BuildMetadata(jpg_name, out.obj))

\* line 169: the vocabulary after extract_metadata.
TagsAfter(tags, out) ==
    IF out.status # "ok" THEN tags
    ELSE tags \cup {FullTag(t) : t \in Retained(out.obj)}

FilterInit ==
    /\ tool_data \in ToolOutputs
    /\ metadata = Pending
    /\ all_tags = {"ImageName"}
    /\ DimIdle
    /\ StoreIdle
    /\ PipeIdle
    /\ FolderIdle
    /\ PairIdle
    /\ RouterIdle
    /\ DecodeIdle
    /\ ReattachIdle
    /\ ScratchIdle
    /\ CacheIdle

\* extract_metadata on the image X_T.JPG.
ExtractOne ==
    /\ metadata = Pending
    /\ metadata' = ExtractMetadata("X_T.JPG", tool_data)
    /\ all_tags' = TagsAfter(all_tags, tool_data)
    /\ UNCHANGED tool_data
    /\ UNCHANGED filterOthers

FilterNext == ExtractOne

SpecFilter == FilterInit /\ [][FilterNext]_vars

(***************************************************************************)
(* extract_metadata.py: save_to_txt, lines 187-216;                        *)
(* copy_metadata.py: _load_metadata, lines 75-102.                         *)
(* metadata.txt is the sequence of its lines; no value of the model holds  *)
(* a line break, so a line of the file is the string written before "\n".  *)
(***************************************************************************)
\* lines 202-203, written without taking ImageName out of the sorted tags.
FieldnamesAllSorted(tags) == Sorted(tags)

\* lines 202-203
Fieldnames(tags) == <<"ImageName">> \o Sorted(tags \ {"ImageName"})

\* lines 211-213: str(row.get(field, '')) for every field.
RowValues(row, fieldnames) ==
    [i \in 1..Len(fieldnames) |->
        IF fieldnames[i] \in DOMAIN row THEN row[fieldnames[i]] ELSE ""]

\* lines 207-214: the lines written to metadata.txt.
SaveToTxt(data, tags) ==
    LET fieldnames == Fieldnames(tags)
    IN  <<Join(fieldnames, ",")>> \o
        [i \in 1..Len(data) |-> Join(RowValues(data[i], fieldnames), ",")]

\* lines 91 and 96: line.strip().split(',')
ParseLine(line) == Split(Strip(line), ",")

\* line 92 with a comparison that ignores case.
ValidHeaderAnyCase(header) == Lower(header[1]) = "imagename"

\* line 92: the header is accepted.
ValidHeader(header) == header[1] = "ImageName"

\* lines 85-102: the value _load_metadata returns, or the exception it
\* raises. A later row of an image replaces an earlier one (line 100).
LoadMetadata(f) ==
    IF f.kind = "absent" THEN [kind |-> "FileNotFoundError"]
    ELSE LET lines == f.lines
             header == IF lines = <<>> THEN <<"">> ELSE ParseLine(lines[1])
             rows == [i \in 2..Len(lines) |-> ParseLine(lines[i])]
             valid == {i \in 2..Len(lines) : Len(rows[i]) >= Len(header)}
             last(name) == CHOOSE i \in valid :
                              /\ rows[i][1] = name
                              /\ \A j \in valid : rows[j][1] = name => j <= i
         IN  IF ~ValidHeader(header) THEN [kind |-> "ValueError"]
             ELSE Dict([image_name \in {rows[i][1] : i \in valid} |->
                          [h \in {header[k] : k \in 2..Len(header)} |->
                              rows[last(image_name)]
                                  [CHOOSE k \in 2..Len(header) : header[k] = h]]])

\* The records extract_metadata returns in the model: an image name and at
\* least one tag (line 171), each with a value: one that ends with a space,
\* one that holds a comma.
StoreNames == {"A_T.JPG", "B_T.JPG"}
StoreTags == {"EXIF.GPSLatitude", "XMP.RtkFlag"}
StoreValues == {"5 ", "1,5"}

Records ==
    { [f \in {"ImageName"} \cup S |-> IF f = "ImageName" THEN n ELSE v[f]] :
        <<n, S, v>> \in { <<n, S, v>> \in StoreNames \X (SUBSET StoreTags) \X [StoreTags -> StoreValues] :
                            /\ S # {}
                            /\ \A t \in StoreTags \ S : v[t] = "5 " } }

RECURSIVE SeqsUpTo(_, _)
\* The sequences over S of length at most n.
SeqsUpTo(S, n) ==
    IF n = 0 THEN {<<>>}
    ELSE LET shorter == SeqsUpTo(S, n - 1)
         IN  shorter \cup {Append(q, x) : q \in shorter, x \in S}

\* The tags of the records of a list.
TagsOf(data) == UNION {DOMAIN data[i] \ {"ImageName"} : i \in 1..Len(data)}

StoreInit ==
    /\ all_tags = {"ImageName"}
    /\ all_metadata = <<>>
    /\ metadata_txt = Absent
    /\ metadata_dict = None
    /\ spc = "extract"
    /\ sfolder = 1
    /\ DimIdle
    /\ FilterIdle
    /\ PipeIdle
    /\ FolderIdle
    /\ PairIdle
    /\ RouterIdle
    /\ DecodeIdle
    /\ ReattachIdle
    /\ ScratchIdle
    /\ CacheIdle

\* extract_metadata.py lines 278-284 and 363-369: the loop over the images
\* of the folder; every record returned is kept and its tags join all_tags
\* (line 169).
ExtractFolder ==
    /\ spc = "extract"
    /\ \E data \in SeqsUpTo(Records, MaxRecords) :
         /\ all_metadata' = data
         /\ all_tags' = all_tags \cup TagsOf(data)
    /\ spc' = "save"
    /\ UNCHANGED <<metadata_txt, metadata_dict, sfolder>>
    /\ UNCHANGED storeOthers

\* extract_metadata.py lines 286-290 and 371-375: save_to_txt is called
\* when a record was extracted.
SaveFolder ==
    /\ spc = "save"
    /\ metadata_txt' = IF all_metadata # <<>>
                          THEN File(SaveToTxt(all_metadata, all_tags))
                          ELSE metadata_txt
    /\ spc' = "load"
    /\ UNCHANGED <<all_tags, all_metadata, metadata_dict, sfolder>>
    /\ UNCHANGED storeOthers

\* copy_metadata.py lines 221-226: the reattachment stage reads the file.
LoadFolder ==
    /\ spc = "load"
    /\ metadata_dict' = LoadMetadata(metadata_txt)
    /\ spc' = "loaded"
    /\ UNCHANGED <<all_tags, all_metadata, metadata_txt, sfolder>>
    /\ UNCHANGED storeOthers

\* extract_metadata.py lines 399-400: the same MetadataProcessor goes on to
\* the next subfolder, which has no metadata.txt yet.
NextFolder ==
    /\ spc = "loaded"
    /\ sfolder < MaxStoreFolders
    /\ sfolder' = sfolder + 1
    /\ all_metadata' = <<>>
    /\ metadata_txt' = Absent
    /\ metadata_dict' = None
    /\ spc' = "extract"
    /\ UNCHANGED all_tags
    /\ UNCHANGED storeOthers

StoreNext == ExtractFolder \/ SaveFolder \/ LoadFolder \/ NextFolder

SpecStore == StoreInit /\ [][StoreNext]_vars

(***************************************************************************)
(* pathlib and the file system. On Windows Path.glob matches without       *)
(* regard to case and a directory cannot hold two names that differ only   *)
(* in case; on Linux both are case sensitive.                              *)
(***************************************************************************)
Platforms == {"Linux", "Windows"}

\* Path.stem: the name without its last suffix.
Stem(name) ==
    LET i == LastIndexIn(".", name)
    IN  IF 1 < i /\ i < Len(name) THEN SubSeq(name, 1, i - 1) ELSE name

\* Path.suffix: the last suffix of the name, with its dot.
Suffix(name) ==
    LET i == LastIndexIn(".", name)
    IN  IF 1 < i /\ i < Len(name) THEN SubSeq(name, i, Len(name)) ELSE ""

\* Two names are the same directory entry.
SameEntry(pf, a, b) == IF pf = "Windows" THEN Lower(a) = Lower(b) ELSE a = b

\* Path.exists() of dir / name.
Exists(pf, dir, name) == \E m \in DOMAIN dir : SameEntry(pf, m, name)

\* A set of names one directory can hold.
CanCoexist(pf, names) ==
    \A a, b \in names : SameEntry(pf, a, b) => a = b

\* dir.glob('*' + ext): the names the pattern matches.
Glob(pf, dir, ext) ==
    { n \in DOMAIN dir :
        IF pf = "Windows" THEN EndsWith(Lower(n), Lower(ext)) ELSE EndsWith(n, ext) }

\* The files of a directory that starts with the given names; the content
\* of a file is named after the place it was first seen at.
DirOf(where, names) == [n \in names |-> where \o "/" \o n]

(***************************************************************************)
(* copy_metadata.py: _find_matching_pairs, lines 104-135.                  *)
(***************************************************************************)
\* {f.stem: f for f in first}, then .update({f.stem: f for f in second}),
\* written so that the first entry of a stem is kept.
StemDictKeepFirst(first, second) ==
    [ st \in {Stem(n) : n \in first \cup second} |->
        IF \E n \in first : Stem(n) = st
           THEN CHOOSE n \in first : Stem(n) = st
           ELSE CHOOSE n \in second : Stem(n) = st ]

\* lines 124-125 and 127-128: {f.stem: f for f in first}, then
\* .update({f.stem: f for f in second}): the second entry of a stem
\* replaces the first.
StemDict(first, second) ==
    [ st \in {Stem(n) : n \in first \cup second} |->
        IF \E n \in second : Stem(n) = st
           THEN CHOOSE n \in second : Stem(n) = st
           ELSE CHOOSE n \in first : Stem(n) = st ]

\* lines 114-135: the pairs returned, <<source name, raster name>>.
FindMatchingPairs(pf, d, in, out) ==
    IF "input_dir" \notin d \/ "out_dir" \notin d THEN {}
    ELSE LET jpg_files == StemDict(Glob(pf, in, ".jpg"), Glob(pf, in, ".JPG"))
             tiff_files == StemDict(Glob(pf, out, ".tiff"), Glob(pf, out, ".TIFF"))
         IN  { <<jpg_files[st], tiff_files[st]>> :
                 st \in DOMAIN jpg_files \cap DOMAIN tiff_files }

\* The names of input_dir/ and out_dir/ in the model.
PairSources == {"A.jpg", "A.JPG", "B.jpg", "D.Jpg"}
PairRasters == {"A.tiff", "A.TIFF", "C.tiff", "D.tiff"}

PairInit ==
    /\ platform \in Platforms
    /\ dirs \in SUBSET {"input_dir", "out_dir"}
    /\ \E ins \in SUBSET PairSources, outs \in SUBSET PairRasters :
         /\ Cardinality(ins) <= MaxDirFiles
         /\ Cardinality(outs) <= MaxDirFiles
         /\ CanCoexist(platform, ins)
         /\ CanCoexist(platform, outs)
         /\ "input_dir" \notin dirs => ins = {}
         /\ "out_dir" \notin dirs => outs = {}
         /\ input_dir = DirOf("input_dir", ins)
         /\ out_dir = DirOf("out_dir", outs)
    /\ top = EmptyDir
    /\ other = EmptyDir
    /\ matches = {}
    /\ ppc = "start"
    /\ DimIdle
    /\ FilterIdle
    /\ TagsIdle
    /\ StoreIdle
    /\ PipeIdle
    /\ RouterIdle
    /\ DecodeIdle
    /\ ReattachIdle
    /\ ScratchIdle
    /\ CacheIdle

\* _find_matching_pairs on the subfolder.
FindPairs ==
    /\ ppc = "start"
    /\ matches' = FindMatchingPairs(platform, dirs, input_dir, out_dir)
    /\ ppc' = "returned"
    /\ UNCHANGED folderVars
    /\ UNCHANGED pairOthers

PairNext == FindPairs

SpecPair == PairInit /\ [][PairNext]_vars

(***************************************************************************)
(* extract_metadata.py: process_folder, lines 244-375 (the file router).   *)
(***************************************************************************)
\* line 295: item.suffix.lower() in ['.jpg', '.jpeg']
IsJpgFile(name) == Lower(Suffix(name)) \in {".jpg", ".jpeg"}

\* lines 308-312
IsThermal(filename) ==
    LET upper_name == Upper(filename)
    IN  EndsWith(upper_name, "T.JPG") \/ EndsWith(upper_name, "INFRA.JPG")

\* lines 265-267 and 354: list(glob('*.jpg')) + list(glob('*.JPG')); each
\* list is taken in the order of the names.
GlobJpgList(pf, dir) == Sorted(Glob(pf, dir, ".jpg")) \o Sorted(Glob(pf, dir, ".JPG"))

\* lines 325 and 345, written so that the target is never found.
TargetFreeAlways(pf, target, name) == TRUE

\* lines 325 and 345: not target_path.exists()
TargetFree(pf, target, name) == ~Exists(pf, target, name)

\* shutil.move written as a copy: the file stays where it was.
RemainingAll(dir, names) == dir

\* lines 326 and 346: shutil.move takes the file out of its directory ...
Remaining(dir, names) == [n \in DOMAIN dir \ names |-> dir[n]]

\* ... and puts it under the same name into the target.
Received(target, from, names) ==
    [n \in DOMAIN target \cup names |-> IF n \in names THEN from[n] ELSE target[n]]

\* The record extract_metadata returns for an image the tool reads a
\* retained tag from (lines 163-173).
RecordOf(name) == ("ImageName" :> name) @@ ("EXIF.GPSLatitude" :> "1.5")

\* lines 278-284 and 363-369: the records of the images of the list, in the
\* order of the list; an image without a retained tag gives None (line 171)
\* and is left out.
ExtractAll(jpg_files, dir, ok) ==
    LET kept == SelectSeq(jpg_files, LAMBDA n : dir[n] \in ok)
    IN  [i \in 1..Len(kept) |-> RecordOf(kept[i])]

\* lines 286-290 and 371-375 with line 169: the records, the vocabulary and
\* metadata.txt after the extraction loop.
Extraction(jpg_files, dir, ok, tags, txt) ==
    LET data == ExtractAll(jpg_files, dir, ok)
        new_tags == tags \cup TagsOf(data)
    IN  [all_metadata |-> data,
         all_tags |-> new_tags,
         metadata_txt |-> IF data # <<>> THEN File(SaveToTxt(data, new_tags)) ELSE txt]

\* The names of the images of the model.
RouterNames == {"X_T.JPG", "Z.jpg", "y_infra.Jpg", "V_T.jpeg"}

\* The contents of the files of the subfolder.
Contents == Range(top) \cup Range(input_dir) \cup Range(other)

RouterInit ==
    /\ platform \in Platforms
    /\ \E tops, ins, others \in SUBSET RouterNames :
         /\ Cardinality(tops) + Cardinality(ins) + Cardinality(others) <= MaxFiles
         /\ CanCoexist(platform, tops)
         /\ CanCoexist(platform, ins)
         /\ CanCoexist(platform, others)
         /\ top = DirOf("top", tops)
         /\ input_dir = DirOf("input_dir", ins)
         /\ other = DirOf("other", others)
    /\ dirs \in SUBSET {"input_dir", "other"}
    /\ "input_dir" \notin dirs => input_dir = EmptyDir
    /\ "other" \notin dirs => other = EmptyDir
    /\ out_dir = EmptyDir
    /\ usable \in SUBSET Contents
    /\ Cardinality(Contents \ usable) <= MaxUnusable
    /\ moved = {}
    /\ skipped = {}
    /\ move_errors = {}
    /\ runs = 0
    /\ all_tags = {"ImageName"}
    /\ all_metadata = <<>>
    /\ metadata_txt = Absent
    /\ metadata_dict = None
    /\ spc = "idle"
    /\ sfolder = 0
    /\ DimIdle
    /\ FilterIdle
    /\ PipeIdle
    /\ PairIdle
    /\ DecodeIdle
    /\ ReattachIdle
    /\ ScratchIdle
    /\ CacheIdle

\* lines 302-316 with 324 and 344: the directory the file is moved to.
TargetOf(name, in, oth) == IF IsThermal(name) THEN in ELSE oth

\* lines 335-337 and 357-359: process_folder returns before the extraction.
NoExtraction(tags, txt) ==
    [all_metadata |-> <<>>, all_tags |-> tags, metadata_txt |-> txt]

\* One call of process_folder on the subfolder. A value that is used more
\* than once is bound by a quantifier over the set that holds it alone.
ProcessFolder ==
    /\ runs < MaxRuns
    /\ runs' = runs + 1
    \* lines 257-263
    /\ dirs' = dirs \cup {"input_dir", "other"}
    /\ \E existing_input_files \in {GlobJpgList(platform, input_dir)} :
         IF existing_input_files # <<>>
         THEN \* lines 268-291: the images of input_dir/ are extracted again
              \* and nothing is moved.
              \E e \in {Extraction(existing_input_files, input_dir, usable,
                                   all_tags, metadata_txt)} :
                /\ all_metadata' = e.all_metadata
                /\ all_tags' = e.all_tags
                /\ metadata_txt' = e.metadata_txt
                /\ moved' = {}
                /\ skipped' = {}
                /\ move_errors' = {}
                /\ UNCHANGED <<top, input_dir, other>>
         ELSE \* lines 293-296
              \E jpg_files \in {{n \in DOMAIN top : IsJpgFile(n)}} :
              \* lines 325 and 345
              \E free \in {{n \in jpg_files :
                              TargetFree(platform, TargetOf(n, input_dir, other), n)}} :
              \* lines 330-331 and 350-351: a move that raises is reported
              \* and the file is left.
              \E errors \in SUBSET free :
              \E thermal_files \in {{n \in jpg_files : IsThermal(n)}} :
              \E new_input \in {Received(input_dir, top, (free \ errors) \cap thermal_files)} :
              \* line 354
              \E listed \in {GlobJpgList(platform, new_input)} :
              \E e \in {IF thermal_files = {} \/ listed = <<>>
                            THEN NoExtraction(all_tags, metadata_txt)
                            ELSE Extraction(listed, new_input, usable,
                                            all_tags, metadata_txt)} :
                /\ top' = Remaining(top, free \ errors)
                /\ other' = Received(other, top, (free \ errors) \ thermal_files)
                /\ input_dir' = new_input
                /\ moved' = free \ errors
                /\ skipped' = jpg_files \ free
                /\ move_errors' = errors
                /\ all_metadata' = e.all_metadata
                /\ all_tags' = e.all_tags
                /\ metadata_txt' = e.metadata_txt
    /\ UNCHANGED <<platform, usable>>
    /\ UNCHANGED routerOthers

RouterNext == ProcessFolder

SpecRouter == RouterInit /\ [][RouterNext]_vars

(***************************************************************************)
(* jpg2tiff.py: process_subfolders (lines 106-121) and                     *)
(* _process_single_folder (lines 123-195). The first subfolder of the      *)
(* parent directory is followed image by image; the subfolders after it    *)
(* are counted.                                                            *)
(***************************************************************************)
\* line 39 and line 135: f.lower().endswith(SUPPORTED_IMAGE_EXTENSIONS)
SUPPORTED_IMAGE_EXTENSIONS == {".jpg", ".jpeg", ".png"}
IsSupported(f) == \E ext \in SUPPORTED_IMAGE_EXTENSIONS : EndsWith(Lower(f), ext)

\* lines 144 and 187: the name of the image's file in temp_dir/.
RawName(filename) == Stem(filename) \o ".raw"

\* lines 176 and 188: the name of the image's file in out_dir/.
TiffName(filename) == Stem(filename) \o ".tiff"

\* lines 151 and 264: img.size of the images of the model, <<width, height>>.
ImageSize == <<2, 1>>

RECURSIVE SearchFrom(_, _)
\* lines 279-283 (and 161-163): the while loop from the height h on.
SearchFrom(n, h) ==
    IF TruncDiv(n, h) * h = n
       THEN [kind |-> "size", width |-> TruncDiv(n, h), height |-> h]
       ELSE SearchFrom(n, h - 1)

\* lines 268-283 (and 156-163): the size the buffer of n samples is
\* reshaped to, or the exception of line 277 (159).
ThermalSize(n, w, h) ==
    IF ~NeedsSearch(n, w, h) THEN [kind |-> "size", width |-> w, height |-> h]
    ELSE IF SeedHeight(n, w, h) = 0 THEN [kind |-> "ZeroDivisionError"]
    ELSE SearchFrom(n, SeedHeight(n, w, h))

\* What the decoder does with an image: it exits non-zero and writes no
\* file, or it writes a buffer of size samples.
SdkOutcomes == {[rc |-> 1, size |-> 0]} \cup {[rc |-> 0, size |-> n] : n \in 0..MaxSamples}

\* lines 239-259 with 153 and 266: "ok" or the exception that leaves the
\* conversion of the image. A decoder failure raises CalledProcessError
\* (line 252); on Windows it is caught (line 249) and reading the missing
\* .raw file raises.
ConvertOutcome(pf, out) ==
    IF out.rc # 0
       THEN (IF pf = "Windows" THEN "FileNotFoundError" ELSE "CalledProcessError")
       ELSE LET size == ThermalSize(out.size, ImageSize[1], ImageSize[2])
            IN  IF size.kind = "size" THEN "ok" ELSE size.kind

\* The names of the files of input_dir/ and out_dir/ in the model.
DecodeNames == {"A_T.JPG", "A_T.png", "b_T.Jpg", "notes.txt"}
OldRasters == {"A_T.tiff", "old.tiff"}

DecodeInit ==
    /\ platform \in Platforms
    /\ \E ins \in SUBSET DecodeNames, outs \in SUBSET OldRasters :
         /\ Cardinality(ins) <= MaxImages
         /\ CanCoexist(platform, ins)
         /\ input_dir = DirOf("input_dir", ins)
         /\ out_dir = DirOf("old", outs)
    /\ temp_files \in {{}, {"stale.raw"}}
    /\ dirs \in SUBSET {"input_dir", "out_dir", "temp_dir"}
    /\ "input_dir" \notin dirs => input_dir = EmptyDir
    /\ "out_dir" \notin dirs => out_dir = EmptyDir
    /\ "temp_dir" \notin dirs => temp_files = {}
    /\ sdk_out \in [DOMAIN input_dir -> SdkOutcomes]
    /\ \A f \in DOMAIN input_dir : ~IsSupported(f) => sdk_out[f].rc = 1
    /\ todo = {}
    /\ decode_pc = "start"
    /\ exception = None
    /\ folders_total \in 1..MaxDecodeFolders
    /\ folders_done = 0
    /\ destroyed = {}
    /\ top = EmptyDir
    /\ other = EmptyDir
    /\ DimIdle
    /\ FilterIdle
    /\ TagsIdle
    /\ StoreIdle
    /\ PipeIdle
    /\ PairIdle
    /\ RouterIdle
    /\ ReattachIdle
    /\ ScratchIdle
    /\ CacheIdle

\* lines 197-203, with the directory left as it is when it exists.
KeepDirectory(dir) == dir

\* lines 197-203: _create_directory removes the directory with all it holds
\* and makes it anew; the result is an empty directory.
CreateDirectory(dir) == EmptyDir

\* lines 125-139: the directories are made, out_dir/ and temp_dir/ anew
\* (_create_directory, lines 197-203), and the images are listed. Without
\* an image the function returns through the finally clause.
StartFolder ==
    /\ decode_pc = "start"
    /\ out_dir' = CreateDirectory(out_dir)
    /\ destroyed' = DOMAIN out_dir
    /\ \E image_files \in {{f \in DOMAIN input_dir : IsSupported(f)}} :
         /\ todo' = image_files
         /\ IF image_files = {}
               THEN /\ decode_pc' = "returned"
                    /\ folders_done' = folders_done + 1
                    /\ dirs' = (dirs \cup {"input_dir", "out_dir"}) \ {"temp_dir"}
               ELSE /\ decode_pc' = "first"
                    /\ folders_done' = folders_done
                    /\ dirs' = dirs \cup {"input_dir", "out_dir", "temp_dir"}
    /\ temp_files' = {}
    /\ UNCHANGED <<platform, input_dir, sdk_out, exception, folders_total>>
    /\ UNCHANGED decodeOthers

\* The conversion of one image: the decoder (lines 148 and 190), the size of
\* the buffer and the raster (lines 178 and 191). An exception leaves
\* _process_single_folder through the finally clause (lines 193-195).
Convert(filename, next_pc) ==
    \E outcome \in {ConvertOutcome(platform, sdk_out[filename])} :
      /\ todo' = todo \ {filename}
      /\ IF outcome = "ok"
            THEN /\ out_dir' = Received(out_dir, (TiffName(filename) :> ("tiff/" \o filename)),
                                        {TiffName(filename)})
                 /\ temp_files' = temp_files \cup {RawName(filename)}
                 /\ decode_pc' = next_pc
                 /\ UNCHANGED <<dirs, exception>>
            ELSE /\ exception' = [kind |-> outcome, image |-> filename]
                 /\ decode_pc' = "raised"
                 /\ temp_files' = {}
                 /\ dirs' = dirs \ {"temp_dir"}
                 /\ UNCHANGED out_dir
      /\ UNCHANGED <<platform, input_dir, sdk_out, folders_total, folders_done, destroyed>>
      /\ UNCHANGED decodeOthers

\* lines 141-178: image_files[0]; os.listdir gives the names in any order.
ConvertFirst ==
    /\ decode_pc = "first"
    /\ \E first_file \in todo : Convert(first_file, "loop")

\* lines 185-192: one iteration of the loop over remaining_files.
ConvertNext ==
    /\ decode_pc = "loop"
    /\ \E filename \in todo : Convert(filename, "loop")

\* lines 193-195: the loop is over and the finally clause removes temp_dir/.
FinishFolder ==
    /\ decode_pc = "loop"
    /\ todo = {}
    /\ decode_pc' = "returned"
    /\ temp_files' = {}
    /\ dirs' = dirs \ {"temp_dir"}
    /\ folders_done' = folders_done + 1
    /\ UNCHANGED <<platform, input_dir, out_dir, sdk_out, todo, exception, folders_total,
                   destroyed>>
    /\ UNCHANGED decodeOthers

\* lines 118-121: process_subfolders goes on with the next subfolder once
\* _process_single_folder has returned; an exception leaves the loop.
NextSubfolder ==
    /\ decode_pc = "returned"
    /\ folders_done < folders_total
    /\ folders_done' = folders_done + 1
    /\ UNCHANGED <<platform, dirs, input_dir, out_dir, sdk_out, todo, temp_files,
                   decode_pc, exception, folders_total, destroyed>>
    /\ UNCHANGED decodeOthers

DecodeNext == StartFolder \/ ConvertFirst \/ ConvertNext \/ FinishFolder \/ NextSubfolder

SpecDecode == DecodeInit /\ [][DecodeNext]_vars

(***************************************************************************)
(* copy_metadata.py: process_all (lines 249-275), process_folder (lines    *)
(* 209-247) and _copy_metadata_to_tiff (lines 137-207). The first          *)
(* subfolder of the root directory is followed pair by pair; the           *)
(* subfolders after it are counted.                                        *)
(***************************************************************************)
\* lines 172-175: the tags of the record handed to the second pass.
XmpTags(record) == {tag \in DOMAIN record : StartsWith(tag, "Xmp.")}

\* What a run of the external tool does: it exits with zero, it exits
\* non-zero, or subprocess.run raises.
BulkResults == {"ok", "nonzero", "raises"}

\* The second pass: as above, or writing the argument file raises.
XmpResults == {"ok", "nonzero", "raises", "write_raises"}

\* What was done with a pair: found says whether its record was found,
\* returned is the value of _copy_metadata_to_tiff, invoked the number of
\* runs of the tool, modified whether the tool rewrote the raster,
\* temp_left whether the temporary argument file is left.
Done(found, returned, invoked, modified, temp_left, bulk, xmp) ==
    [found |-> found, returned |-> returned, invoked |-> invoked,
     modified |-> modified, temp_left |-> temp_left, bulk |-> bulk, xmp |-> xmp]

\* lines 151-207: _copy_metadata_to_tiff for a raster that exists.
CopyMetadataToTiff(available, record, bulk, xmp) ==
    \* lines 201-203
    IF ~available THEN Done(TRUE, FALSE, 0, FALSE, FALSE, "none", "none")
    \* lines 166-170, and 205-207 when subprocess.run raises
    ELSE IF bulk # "ok" THEN Done(TRUE, FALSE, 1, FALSE, FALSE, bulk, "none")
    \* lines 177 and 200
    ELSE IF XmpTags(record) = {} THEN Done(TRUE, TRUE, 1, TRUE, FALSE, bulk, "none")
    \* lines 178-184: the file exists (delete=False) when the write raises;
    \* the handler of lines 205-207 returns False
    ELSE IF xmp = "write_raises" THEN Done(TRUE, FALSE, 1, TRUE, TRUE, bulk, xmp)
    \* line 193 raises: line 195 is not reached
    ELSE IF xmp = "raises" THEN Done(TRUE, FALSE, 2, TRUE, TRUE, bulk, xmp)
    \* lines 193-200: the file is removed, a non-zero exit is reported
    \* (lines 197-198) and True is returned
    ELSE Done(TRUE, TRUE, 2, TRUE, FALSE, bulk, xmp)

\* lines 241-243, with the record looked up by the stem of the filename.
LookupByStem(jpg_name, d) ==
    IF \E k \in DOMAIN d : Stem(k) = Stem(jpg_name)
       THEN Dict(d[CHOOSE k \in DOMAIN d : Stem(k) = Stem(jpg_name)])
       ELSE None

\* lines 241-243: metadata_dict[jpg_name] if jpg_name in metadata_dict.
Lookup(jpg_name, d) ==
    IF jpg_name \in DOMAIN d THEN Dict(d[jpg_name]) ELSE None

\* The files of the subfolder in the model.
ReattachSources == {"A_T.JPG", "A_T.jpg", "B_T.jpg"}
ReattachRasters == {"A_T.tiff", "B_T.tiff"}
ReattachHeaders == {"ImageName,Xmp.Note", "ImageName,XMP.RtkFlag",
                    " ImageName,Xmp.Note", "imagename,Xmp.Note"}
ReattachRows == {"A_T.JPG,1", "B_T.jpg,1"}

\* The metadata.txt of the subfolder: absent, empty, or a header and rows.
ReattachFiles ==
    {Absent, File(<<>>)} \cup
    {File(<<h>> \o Sorted(rows)) : h \in ReattachHeaders, rows \in SUBSET ReattachRows}

ReattachInit ==
    /\ platform \in Platforms
    /\ \E ins \in SUBSET ReattachSources, outs \in SUBSET ReattachRasters :
         /\ Cardinality(ins) <= MaxDirFiles
         /\ CanCoexist(platform, ins)
         /\ input_dir = DirOf("input_dir", ins)
         /\ out_dir = DirOf("out_dir", outs)
    /\ dirs \in SUBSET {"input_dir", "out_dir"}
    /\ "input_dir" \notin dirs => input_dir = EmptyDir
    /\ "out_dir" \notin dirs => out_dir = EmptyDir
    /\ metadata_txt \in ReattachFiles
    /\ metadata_dict = None
    /\ matches = {}
    /\ exiftool_available \in BOOLEAN
    /\ rpc = "load"
    /\ pending = {}
    /\ success_count = 0
    /\ result = None
    /\ handled = NoPairs
    /\ temp_args = {}
    /\ copy_total \in 1..MaxCopyFolders
    /\ copy_done = 0
    /\ top = EmptyDir
    /\ other = EmptyDir
    /\ all_metadata = <<>>
    /\ spc = "idle"
    /\ sfolder = 0
    /\ ppc = "idle"
    /\ DimIdle
    /\ FilterIdle
    /\ TagsIdle
    /\ PipeIdle
    /\ RouterIdle
    /\ DecodeIdle
    /\ ScratchIdle
    /\ CacheIdle

\* The tuple process_folder returns.
Counts(success, total) == [kind |-> "tuple", success |-> success, total |-> total]

\* lines 221-226: the Metadata Store is loaded; any exception of
\* _load_metadata ends process_folder with (0, 0).
LoadStore ==
    /\ rpc = "load"
    /\ \E loaded \in {LoadMetadata(metadata_txt)} :
         /\ metadata_dict' = loaded
         /\ IF loaded.kind = "dict"
               THEN /\ rpc' = "pairs"
                    /\ UNCHANGED <<result, copy_done>>
               ELSE /\ rpc' = "returned"
                    /\ result' = Counts(0, 0)
                    /\ copy_done' = copy_done + 1
    /\ UNCHANGED <<platform, dirs, input_dir, out_dir, metadata_txt, matches,
                   exiftool_available, pending, success_count, handled, temp_args,
                   copy_total>>
    /\ UNCHANGED reattachOthers

\* lines 228-235: the pairs are searched; without a pair process_folder
\* returns (0, 0).
PairFolder ==
    /\ rpc = "pairs"
    /\ \E found \in {FindMatchingPairs(platform, dirs, input_dir, out_dir)} :
         /\ matches' = found
         /\ pending' = found
         /\ IF found = {}
               THEN /\ rpc' = "returned"
                    /\ result' = Counts(0, 0)
                    /\ copy_done' = copy_done + 1
               ELSE /\ rpc' = "loop"
                    /\ UNCHANGED <<result, copy_done>>
    /\ success_count' = 0
    /\ UNCHANGED <<platform, dirs, input_dir, out_dir, metadata_txt, metadata_dict,
                   exiftool_available, handled, temp_args, copy_total>>
    /\ UNCHANGED reattachOthers

\* lines 238-245: one iteration of the loop over matches.
CopyPair ==
    /\ rpc = "loop"
    /\ \E pair \in pending, bulk \in BulkResults, xmp \in XmpResults :
       \E record \in {Lookup(pair[1], metadata_dict.d)} :
       \E done \in {IF record.kind = "dict"
                       THEN CopyMetadataToTiff(exiftool_available, record.d, bulk, xmp)
                       ELSE Done(FALSE, FALSE, 0, FALSE, FALSE, "none", "none")} :
         /\ pending' = pending \ {pair}
         /\ handled' = handled @@ (pair :> done)
         /\ success_count' = IF done.returned THEN success_count + 1 ELSE success_count
         /\ out_dir' = IF done.modified
                          THEN [out_dir EXCEPT ![pair[2]] = "tagged/" \o pair[1]]
                          ELSE out_dir
         /\ temp_args' = IF done.temp_left THEN temp_args \cup {pair} ELSE temp_args
    /\ UNCHANGED <<platform, dirs, input_dir, metadata_txt, metadata_dict, matches,
                   exiftool_available, rpc, result, copy_total, copy_done>>
    /\ UNCHANGED reattachOthers

\* line 247: the loop is over.
ReturnCounts ==
    /\ rpc = "loop"
    /\ pending = {}
    /\ rpc' = "returned"
    /\ result' = Counts(success_count, Cardinality(matches))
    /\ copy_done' = copy_done + 1
    /\ UNCHANGED <<platform, dirs, input_dir, out_dir, metadata_txt, metadata_dict,
                   matches, exiftool_available, pending, success_count, handled,
                   temp_args, copy_total>>
    /\ UNCHANGED reattachOthers

\* lines 272-275: process_all goes on with the next subfolder.
NextCopyFolder ==
    /\ rpc = "returned"
    /\ copy_done < copy_total
    /\ copy_done' = copy_done + 1
    /\ UNCHANGED <<platform, dirs, input_dir, out_dir, metadata_txt, metadata_dict,
                   matches, exiftool_available, rpc, pending, success_count, result,
                   handled, temp_args, copy_total>>
    /\ UNCHANGED reattachOthers

ReattachNext == LoadStore \/ PairFolder \/ CopyPair \/ ReturnCounts \/ NextCopyFolder

SpecReattach == ReattachInit /\ [][ReattachNext]_vars

(***************************************************************************)
(* extract_metadata.py: the scratch files of the extraction stage. The     *)
(* constructor (lines 36-43) creates the per-run temporary directory and   *)
(* then checks the metadata tool; extract_metadata (lines 121-185) copies  *)
(* the image into the directory and unlinks the copy in its finally        *)
(* clause; process_all (lines 377-409) removes the directory in its        *)
(* finally clause. The removal calls themselves are taken to succeed.      *)
(***************************************************************************)

\* line 134: temp_jpg = self.temp_dir / f"temp_{jpg_path.name}".
TempName(name) == "temp_" \o name

\* What happens in one call of extract_metadata: it returns a record, the
\* copy of line 136 raises, the tool of line 139 raises (check=True), or
\* the tool prints no data (lines 143-145).
ScratchOutcomes == {"ok", "copy_raises", "tool_raises", "no_data"}

ScratchNames == {"A_T.JPG", "B_T.JPG"}

\* The calls of extract_metadata the stage will make, in order.
ScratchQueues ==
    UNION {[1..n -> [name : ScratchNames, outcome : ScratchOutcomes]] :
              n \in 0..MaxScratchImages}

ScratchInit ==
    /\ scratch_pc = "new"
    /\ self_temp_dir = FALSE
    /\ temp_jpg = {}
    /\ exiftool_runs \in BOOLEAN
    /\ jpg_queue \in ScratchQueues
    /\ extracted = 0
    /\ DimIdle
    /\ FilterIdle
    /\ TagsIdle
    /\ StoreIdle
    /\ PipeIdle
    /\ FolderIdle
    /\ PairIdle
    /\ RouterIdle
    /\ DecodeIdle
    /\ ReattachIdle
    /\ CacheIdle

\* lines 36-43 and main.py lines 42, 55-57: the constructor creates the
\* directory (line 38), then _check_exiftool (lines 84-98) raises
\* RuntimeError when the tool cannot run; run_all re-raises it.
Construct ==
    /\ scratch_pc = "new"
    /\ self_temp_dir' = TRUE
    /\ scratch_pc' = IF exiftool_runs THEN "ready" ELSE "raised"
    /\ UNCHANGED <<temp_jpg, exiftool_runs, jpg_queue, extracted>>
    /\ UNCHANGED scratchOthers

\* lines 131-136: the image is copied into the temporary directory. When
\* the copy raises, the handler of lines 177-179 returns None and the
\* finally clause finds no file.
CopyToTemp ==
    /\ scratch_pc = "ready"
    /\ jpg_queue # <<>>
    /\ IF Head(jpg_queue).outcome = "copy_raises"
          THEN /\ jpg_queue' = Tail(jpg_queue)
               /\ UNCHANGED <<scratch_pc, temp_jpg>>
          ELSE /\ temp_jpg' = temp_jpg \cup {TempName(Head(jpg_queue).name)}
               /\ scratch_pc' = "copied"
               /\ UNCHANGED jpg_queue
    /\ UNCHANGED <<self_temp_dir, exiftool_runs, extracted>>
    /\ UNCHANGED scratchOthers

\* lines 138-185: the tool runs on the copy; on every outcome the finally
\* clause of lines 180-185 unlinks the copy before the call returns.
ExtractFromTemp ==
    /\ scratch_pc = "copied"
    /\ temp_jpg' = temp_jpg \ {TempName(Head(jpg_queue).name)}
    /\ extracted' = IF Head(jpg_queue).outcome = "ok" THEN extracted + 1 ELSE extracted
    /\ jpg_queue' = Tail(jpg_queue)
    /\ scratch_pc' = "ready"
    /\ UNCHANGED <<self_temp_dir, exiftool_runs>>
    /\ UNCHANGED scratchOthers

\* lines 401-409: the loop over the folders is over, or process_folder
\* raised between two images and the handler of lines 401-402 caught it;
\* the finally clause removes the temporary directory.
EndStage ==
    /\ scratch_pc = "ready"
    /\ scratch_pc' = IF jpg_queue = <<>> THEN "ended" ELSE "caught"
    /\ self_temp_dir' = FALSE
    /\ temp_jpg' = {}
    /\ UNCHANGED <<exiftool_runs, jpg_queue, extracted>>
    /\ UNCHANGED scratchOthers

ScratchNext == Construct \/ CopyToTemp \/ ExtractFromTemp \/ EndStage

SpecScratch == ScratchInit /\ [][ScratchNext]_vars

(***************************************************************************)
(* jpg2tiff.py: the class attribute ImageProcessor._last_thermal_size. It  *)
(* is written for the first file of a folder whose buffer does not have    *)
(* the declared size (lines 156-173) and set to None by _process_raw_image *)
(* when the class does not have it yet (lines 271-272). Two runs of the    *)
(* program are modelled side by side: each processes images of its own     *)
(* and then the same image.                                                *)
(***************************************************************************)

\* The images of the model: samples in the buffer, declared width and height.
CacheImages == [n : 0..MaxCachePixels, w : 1..MaxCacheSide, h : 1..MaxCacheSide]

CacheInit ==
    /\ last_thermal_size = [r \in CacheRuns |-> Unset]
    /\ image \in CacheImages
    /\ recovered = [r \in CacheRuns |-> None]
    /\ earlier = [r \in CacheRuns |-> 0]
    /\ DimIdle
    /\ FilterIdle
    /\ TagsIdle
    /\ StoreIdle
    /\ PipeIdle
    /\ FolderIdle
    /\ PairIdle
    /\ RouterIdle
    /\ DecodeIdle
    /\ ReattachIdle
    /\ ScratchIdle

\* lines 268-283, with the remembered size taken for a buffer it fits.
RecoveredSizeFromHint(n, w, h, hint) ==
    IF NeedsSearch(n, w, h) /\ hint.kind = "size" /\ hint.width * hint.height = n
       THEN hint
       ELSE ThermalSize(n, w, h)

\* lines 268-283: the size _process_raw_image reshapes the buffer to when
\* the class attribute holds hint: the attribute is not read.
RecoveredSize(n, w, h, hint) == ThermalSize(n, w, h)

\* lines 271-272: the attribute is set to None when the class has none.
EnsureAttribute(value) == IF value = Unset THEN None ELSE value

\* lines 156-170: the sizes found for the images whose buffer does not have
\* the declared size and whose search does not raise.
SearchedSizes ==
    {size \in {ThermalSize(first.n, first.w, first.h) :
                  first \in {i \in CacheImages : NeedsSearch(i.n, i.w, i.h)}} :
        size.kind = "size"}

\* lines 141-178: an image is converted as the first file of a folder. With
\* a buffer of another size than declared the size found is remembered
\* (lines 170-173); with a buffer of the declared size the attribute is
\* left to _process_raw_image (line 178). An image whose search raises ends
\* the run and is not taken here.
FirstFile ==
    /\ \E r \in CacheRuns :
         /\ recovered[r] = None
         /\ earlier[r] < MaxEarlier
         /\ \/ \E size \in SearchedSizes :
                 last_thermal_size' = [last_thermal_size EXCEPT ![r] = size]
            \/ last_thermal_size' = [last_thermal_size EXCEPT ![r] = EnsureAttribute(@)]
         /\ earlier' = [earlier EXCEPT ![r] = @ + 1]
    /\ UNCHANGED <<image, recovered>>
    /\ UNCHANGED cacheOthers

\* lines 185-192: an image is converted in the loop over the remaining
\* files: _process_raw_image alone, whatever the image.
RemainingFile ==
    /\ \E r \in CacheRuns :
         /\ recovered[r] = None
         /\ earlier[r] < MaxEarlier
         /\ last_thermal_size' = [last_thermal_size EXCEPT ![r] = EnsureAttribute(@)]
         /\ earlier' = [earlier EXCEPT ![r] = @ + 1]
    /\ UNCHANGED <<image, recovered>>
    /\ UNCHANGED cacheOthers

\* lines 261-285: _process_raw_image of the image both runs convert.
ProcessRawImage ==
    /\ \E r \in CacheRuns :
         /\ recovered[r] = None
         /\ recovered' = [recovered EXCEPT ![r] =
                             RecoveredSize(image.n, image.w, image.h,
                                           last_thermal_size[r])]
         /\ last_thermal_size' = [last_thermal_size EXCEPT ![r] = EnsureAttribute(@)]
    /\ UNCHANGED <<image, earlier>>
    /\ UNCHANGED cacheOthers

CacheNext == FirstFile \/ RemainingFile \/ ProcessRawImage

SpecCache == CacheInit /\ [][CacheNext]_vars

(***************************************************************************)
(* main.py: run_all, lines 36-57, with the subfolder loops of the three    *)
(* stages: extract_metadata.py process_all (lines 377-409), jpg2tiff.py    *)
(* process_subfolders (lines 106-121), copy_metadata.py process_all        *)
(* (lines 249-275). One action processes one subfolder in one stage; the   *)
(* subfolder's processing either completes or fails with an exception      *)
(* that no per-image handler catches.                                      *)
(***************************************************************************)
NextStage(st) ==
    CASE st = "extract" -> "decode"
      [] st = "decode" -> "reattach"
      [] st = "reattach" -> "done"

PipeInit ==
    /\ subfolders \in 1..MaxFolders
    /\ stage = "extract"
    /\ pfolder = 1
    /\ attempted = [st \in Stages |-> {}]
    /\ failed = [st \in Stages |-> {}]
    /\ DimIdle
    /\ FilterIdle
    /\ TagsIdle
    /\ StoreIdle
    /\ FolderIdle
    /\ PairIdle
    /\ RouterIdle
    /\ DecodeIdle
    /\ ReattachIdle
    /\ ScratchIdle
    /\ CacheIdle

\* The loop goes on to the next subfolder, or the stage ends and run_all
\* starts the next stage (main.py lines 45-53).
Advance ==
    IF pfolder < subfolders
       THEN /\ pfolder' = pfolder + 1
            /\ UNCHANGED stage
       ELSE /\ pfolder' = 1
            /\ stage' = NextStage(stage)

\* extract_metadata.py lines 384-403: an exception of process_folder leaves
\* the for loop of line 399 and is caught by the handler of line 402, which
\* encloses the loop; process_all returns and run_all goes on to decode.
ExtractFailure ==
    /\ pfolder' = 1
    /\ stage' = NextStage(stage)

\* extract_metadata.py lines 399-400: process_folder on one subfolder.
ExtractStage ==
    /\ stage = "extract"
    /\ attempted' = [attempted EXCEPT !["extract"] = @ \cup {pfolder}]
    /\ \E fails \in BOOLEAN :
         IF fails
            THEN /\ failed' = [failed EXCEPT !["extract"] = @ \cup {pfolder}]
                 /\ ExtractFailure
            ELSE /\ UNCHANGED failed
                 /\ Advance
    /\ UNCHANGED subfolders
    /\ UNCHANGED pipeOthers

\* jpg2tiff.py lines 118-121 and 133-195: _process_single_folder has a
\* finally clause and no handler, and neither has process_subfolders: an
\* exception reaches run_all, which prints it and raises it again
\* (main.py lines 55-57).
DecodeFailure ==
    /\ stage' = "raised"
    /\ UNCHANGED pfolder

\* jpg2tiff.py lines 118-121: _process_single_folder on one subfolder.
DecodeStage ==
    /\ stage = "decode"
    /\ attempted' = [attempted EXCEPT !["decode"] = @ \cup {pfolder}]
    /\ \E fails \in BOOLEAN :
         IF fails
            THEN /\ failed' = [failed EXCEPT !["decode"] = @ \cup {pfolder}]
                 /\ DecodeFailure
            ELSE /\ UNCHANGED failed
                 /\ Advance
    /\ UNCHANGED subfolders
    /\ UNCHANGED pipeOthers

\* copy_metadata.py lines 272-275 and 222-226, 205-207: process_folder on
\* one subfolder; a failure to load metadata.txt or to copy to a raster is
\* caught inside process_folder and the loop goes on.
ReattachStage ==
    /\ stage = "reattach"
    /\ attempted' = [attempted EXCEPT !["reattach"] = @ \cup {pfolder}]
    /\ \E fails \in BOOLEAN :
         failed' = IF fails THEN [failed EXCEPT !["reattach"] = @ \cup {pfolder}]
                            ELSE failed
    /\ Advance
    /\ UNCHANGED subfolders
    /\ UNCHANGED pipeOthers

PipeNext == ExtractStage \/ DecodeStage \/ ReattachStage

SpecPipe == PipeInit /\ [][PipeNext]_vars

(***************************************************************************)
(* Claims about the dimension recovery (SpecDim).                          *)
(***************************************************************************)
\* A factor pair (w, h) of n with h no larger than the declared height.
HasFactorPair(n, maxh) == \E h \in 1..maxh : n % h = 0

\* C1: for every buffer length N >= 1 that differs from the declared
\* width * height and has an exact factor pair with h <= declared height,
\* the search raises no error, keeps height >= 1 while it runs, and ends
\* with width * height = N and height >= 1.
C1_SearchTerminates ==
    ( /\ actual_pixels >= 1
      /\ actual_pixels # declared[1] * declared[2]
      /\ HasFactorPair(actual_pixels, declared[2]) )
    => /\ dpc # "ZeroDivisionError"
       /\ dpc = "search" => new_height >= 1
       /\ dpc = "done" => /\ shape[1] * shape[2] = actual_pixels
                          /\ shape[1] >= 1

\* C2: when the buffer holds exactly declared width * height samples, the
\* divisor search is not entered and the raster is reshaped to
\* (declared height rows, declared width columns).
C2_DeclaredDimensionsUsed ==
    actual_pixels = declared[1] * declared[2]
    => /\ ~searched
       /\ dpc \in {"start", "done"}
       /\ dpc = "done" => shape = <<declared[2], declared[1]>>

C2_Witness ==
    /\ actual_pixels = declared[1] * declared[2]
    /\ declared[1] # declared[2]
    /\ dpc = "done"
    /\ shape = <<declared[2], declared[1]>>

\* |a - b|
AbsDiff(a, b) == IF a >= b THEN a - b ELSE b - a

\* The ratio w1/h1 differs less from w/h than the ratio w2/h2 does.
CloserByDifference(w1, h1, w2, h2, w, h) ==
    AbsDiff(w1 * h, w * h1) * h2 < AbsDiff(w2 * h, w * h2) * h1

\* The larger over the smaller of x and y, as <<numerator, denominator>>.
Quotient(x, y) == IF x >= y THEN <<x, y>> ELSE <<y, x>>

\* The quotient of w1/h1 and w/h (the larger over the smaller) is less than
\* that of w2/h2 and w/h.
CloserByQuotient(w1, h1, w2, h2, w, h) ==
    LET q1 == Quotient(w1 * h, w * h1)
        q2 == Quotient(w2 * h, w * h2)
    IN  q1[1] * q2[2] < q2[1] * q1[2]

\* C13: when the search was entered and has ended, no exact factor pair of
\* N has a ratio closer to the declared ratio than the pair the search
\* returned, by difference and by quotient alike.
C13_ClosestRatio ==
    (dpc = "done" /\ searched) =>
        \A h \in 1..actual_pixels :
           actual_pixels % h = 0 =>
              ~ ( /\ CloserByDifference(actual_pixels \div h, h, shape[2], shape[1],
                                        declared[1], declared[2])
                  /\ CloserByQuotient(actual_pixels \div h, h, shape[2], shape[1],
                                      declared[1], declared[2]) )

(***************************************************************************)
(* Claims about the tag filtering (SpecFilter).                            *)
(***************************************************************************)
\* The identifier <group>.<name> of a tag of TagTable.
TagId(r) == r.group \o "." \o r.name

\* old is new with some leading '+' characters put back.
StripsPlus(old, new) ==
    /\ ~StartsWith(new, "+")
    /\ \E k \in 0..Len(old) :
         /\ \A i \in 1..k : Char(old, i) = "+"
         /\ SubSeq(old, k + 1, Len(old)) = new

\* C10: a returned record holds <group>.<name> exactly when the tool
\* reported <group>:<name>, the lower-cased name contains one of the
\* keywords and the name is not in the denylist; it holds nothing else but
\* ImageName; each value is the stringified tool value without its leading
\* '+'; EXIF:GPSLatitude is retained, EXIF:FileSize and XMP:Make are dropped.
C10_TagFiltering ==
    /\ metadata.kind = "dict" =>
         /\ tool_data.status = "ok"
         /\ \A r \in TagTable :
              TagId(r) \in DOMAIN metadata.d
              <=> /\ r.full \in DOMAIN tool_data.obj
                  /\ \E k \in {"dji", "gps", "image", "rtk", "thermal"} :
                        Contains(Lower(r.name), k)
                  /\ r.name \notin {"SourceFile", "Directory", "FileSize",
                                    "FileModifyDate", "FileAccessDate",
                                    "FileInodeChangeDate"}
         /\ DOMAIN metadata.d \subseteq {"ImageName"} \cup {TagId(r) : r \in TagTable}
         /\ \A r \in TagTable :
              TagId(r) \in DOMAIN metadata.d
              => StripsPlus(PyStr(tool_data.obj[r.full]), metadata.d[TagId(r)])
         /\ "EXIF.FileSize" \notin DOMAIN metadata.d
         /\ "XMP.Make" \notin DOMAIN metadata.d
    /\ ( /\ metadata # Pending
         /\ tool_data.status = "ok"
         /\ "EXIF:GPSLatitude" \in DOMAIN tool_data.obj )
       => /\ metadata.kind = "dict"
          /\ "EXIF.GPSLatitude" \in DOMAIN metadata.d
          /\ tool_data.obj["EXIF:GPSLatitude"] = IntVal(640)
             => metadata.d["EXIF.GPSLatitude"] = "640"

C10_Witness ==
    /\ metadata.kind = "dict"
    /\ "EXIF:FileSize" \in DOMAIN tool_data.obj
    /\ "EXIF:GPSLatitude" \in DOMAIN tool_data.obj
    /\ tool_data.obj["EXIF:GPSLatitude"] = StrVal("++2")
    /\ metadata.d["EXIF.GPSLatitude"] = "2"

(***************************************************************************)
(* Claims about the Metadata Store (SpecStore).                            *)
(***************************************************************************)
\* The records of the folder have distinct filenames.
DistinctNames(data) ==
    \A i, j \in 1..Len(data) : data[i]["ImageName"] = data[j]["ImageName"] => i = j

\* No value of the records, filename included, holds a comma.
NoComma(data) ==
    \A i \in 1..Len(data) : \A f \in DOMAIN data[i] : ~Contains(data[i][f], ",")

\* C3: round trip: for records with distinct filenames and values without
\* comma or line break, reading back the file save_to_txt wrote yields an
\* entry for every record, with the identical string for every tag the
\* record held and the empty string for every other tag of the vocabulary.
C3_RoundTrip ==
    ( /\ spc = "loaded"
      /\ all_metadata # <<>>
      /\ DistinctNames(all_metadata)
      /\ NoComma(all_metadata) )
    => /\ metadata_dict.kind = "dict"
       /\ \A i \in 1..Len(all_metadata) :
            LET row == all_metadata[i]
                image_name == row["ImageName"]
            IN  /\ image_name \in DOMAIN metadata_dict.d
                /\ \A t \in all_tags \ {"ImageName"} :
                     /\ t \in DOMAIN metadata_dict.d[image_name]
                     /\ metadata_dict.d[image_name][t] =
                           (IF t \in DOMAIN row THEN row[t] ELSE "")

\* C5: the columns of a subfolder's metadata.txt are ImageName plus the
\* tags of that subfolder's own records, whatever was extracted before.
C5_VocabularyPerFolder ==
    ( /\ spc \in {"load", "loaded"}
      /\ metadata_txt.kind = "file" )
    => Range(Split(metadata_txt.lines[1], ",")) = {"ImageName"} \cup TagsOf(all_metadata)

\* The value of the record holds no comma.
NoCommaRow(row) == \A f \in DOMAIN row : ~Contains(row[f], ",")

\* C11: the header of every metadata.txt save_to_txt wrote starts with
\* ImageName and goes on with the tags of the vocabulary in strictly
\* ascending order (so without duplicates); the file has one data row per
\* record, and the row of a record whose values hold no comma has as many
\* fields as the header: the filename, then the record's value in the column
\* of every tag it holds and the empty string in every other column.
C11_HeaderSortedRowsAligned ==
    ( /\ spc \in {"load", "loaded"}
      /\ metadata_txt.kind = "file" )
    => LET lines == metadata_txt.lines
           header == Split(lines[1], ",")
       IN  /\ header[1] = "ImageName"
           /\ \A k \in 2..(Len(header) - 1) : LessStr(header[k], header[k + 1])
           /\ {header[k] : k \in 2..Len(header)} = all_tags \ {"ImageName"}
           /\ Len(lines) = 1 + Len(all_metadata)
           /\ \A i \in 1..Len(all_metadata) :
                NoCommaRow(all_metadata[i]) =>
                  LET fields == Split(lines[i + 1], ",")
                  IN  /\ Len(fields) = Len(header)
                      /\ fields[1] = all_metadata[i]["ImageName"]
                      /\ \A k \in 2..Len(header) :
                           fields[k] = (IF header[k] \in DOMAIN all_metadata[i]
                                           THEN all_metadata[i][header[k]]
                                           ELSE "")

\* C11 witness: a file with two tag columns and two rows, one of a record
\* that does not hold one of the tags.
C11_Witness ==
    /\ spc = "load"
    /\ metadata_txt.kind = "file"
    /\ Len(Split(metadata_txt.lines[1], ",")) = 3
    /\ Len(all_metadata) = 2
    /\ NoCommaRow(all_metadata[1])
    /\ \E t \in all_tags : t \notin DOMAIN all_metadata[1]

(***************************************************************************)
(* Claims about the orchestration (SpecPipe).                              *)
(***************************************************************************)
\* C4: a failure in one subfolder of a stage is caught at that subfolder:
\* the later subfolders of the stage are still processed and the later
\* stages still run over all subfolders. So once a subfolder of a stage
\* has failed, the run never ends before every later subfolder of that
\* stage and every subfolder of every later stage was processed.
C4_FailureConfinedToSubfolder ==
    stage \in {"done", "raised"}
    => \A st \in Stages : attempted[st] = 1..subfolders

(***************************************************************************)
(* Claims about the pairing (SpecPair).                                    *)
(***************************************************************************)
\* A name with one of the two extensions, spelled exactly so.
HasExt(name, exts) == \E e \in exts : EndsWith(name, e)

\* The pairs of a source of input_dir and a raster of out_dir with the
\* same stem.
SameStemPairs ==
    { <<s, r>> \in (DOMAIN input_dir) \X (DOMAIN out_dir) :
        /\ HasExt(s, {".jpg", ".JPG"})
        /\ HasExt(r, {".tiff", ".TIFF"})
        /\ Stem(s) = Stem(r) }

\* C6 as stated: the pairs returned are exactly the same-stem pairs of a
\* .jpg/.JPG source and a .tiff/.TIFF raster, and no stem is in two pairs.
C6_PairsAreAllSameStemPairs ==
    ppc = "returned"
    => /\ matches = SameStemPairs
       /\ \A p, q \in matches : Stem(p[1]) = Stem(q[1]) => p = q

\* The sources and rasters the glob patterns of lines 124-128 match.
GlobbedSources == Glob(platform, input_dir, ".jpg") \cup Glob(platform, input_dir, ".JPG")
GlobbedRasters == Glob(platform, out_dir, ".tiff") \cup Glob(platform, out_dir, ".TIFF")

\* C6 amended: one pair for every stem that a source matched by *.jpg or
\* *.JPG in input_dir and a raster matched by *.tiff or *.TIFF in out_dir
\* share, and no other pair; when two sources (rasters) have the stem, the
\* pair holds the one *.JPG (*.TIFF) matches.
C6_OnePairPerSharedStem ==
    ppc = "returned"
    => /\ \A p \in matches :
            /\ p[1] \in GlobbedSources
            /\ p[2] \in GlobbedRasters
            /\ Stem(p[1]) = Stem(p[2])
            /\ (\E s \in Glob(platform, input_dir, ".JPG") : Stem(s) = Stem(p[1]))
               => p[1] \in Glob(platform, input_dir, ".JPG")
            /\ (\E r \in Glob(platform, out_dir, ".TIFF") : Stem(r) = Stem(p[2]))
               => p[2] \in Glob(platform, out_dir, ".TIFF")
       /\ \A s \in GlobbedSources, r \in GlobbedRasters :
            Stem(s) = Stem(r) => \E p \in matches : Stem(p[1]) = Stem(s)
       /\ \A p, q \in matches : Stem(p[1]) = Stem(q[1]) => p = q
       /\ (DOMAIN input_dir = {"A.jpg", "B.jpg"} /\ DOMAIN out_dir = {"A.tiff", "C.tiff"})
          => matches = {<<"A.jpg", "A.tiff">>}

C6_Witness ==
    /\ ppc = "returned"
    /\ platform = "Linux"
    /\ DOMAIN input_dir = {"A.jpg", "A.JPG", "B.jpg"}
    /\ DOMAIN out_dir = {"A.tiff", "C.tiff"}
    /\ matches = {<<"A.JPG", "A.tiff">>}

(***************************************************************************)
(* Claims about the file router (SpecRouter).                              *)
(***************************************************************************)
\* A top-level image, in the words of the File Router: a .jpg or .jpeg file.
IsImage(name) == HasExt(Lower(name), {".jpg", ".jpeg"})

\* The name classifies the image as thermal.
ThermalName(name) ==
    EndsWith(Upper(name), "T.JPG") \/ EndsWith(Upper(name), "INFRA.JPG")

\* Every file of the subfolder was at the top level when the model started:
\* input_dir/ and other/ were empty or absent then.
FreshFolder ==
    \A c \in Contents : StartsWith(c, "top/")

\* The number of data rows of metadata.txt for the image.
RowsOf(name) ==
    IF metadata_txt.kind = "absent" THEN 0
    ELSE Cardinality({i \in 2..Len(metadata_txt.lines) :
                        Split(metadata_txt.lines[i], ",")[1] = name})

\* C7: after one call of process_folder on a fresh folder in which no move
\* raised, every top-level image lies in input_dir/ if its upper-cased name
\* ends with T.JPG or INFRA.JPG and in other/ otherwise, and metadata.txt has
\* exactly one data row for each thermal image the tool reads a retained tag
\* from and none for any other image.
C7_FreshFolderExtraction ==
    (runs = 1 /\ FreshFolder /\ move_errors = {}) =>
        /\ \A n \in DOMAIN top : ~IsImage(n)
        /\ \A n \in DOMAIN input_dir : ThermalName(n)
        /\ \A n \in DOMAIN other : ~ThermalName(n)
        /\ \A n \in DOMAIN input_dir :
             RowsOf(n) = IF input_dir[n] \in usable THEN 1 ELSE 0
        /\ \A n \in DOMAIN other : RowsOf(n) = 0

\* The number of files of the subfolder that hold the content.
Copies(c) ==
    Cardinality({n \in DOMAIN top : top[n] = c})
    + Cardinality({n \in DOMAIN input_dir : input_dir[n] = c})
    + Cardinality({n \in DOMAIN other : other[n] = c})

\* Every file of the directory is still there with its content after the step.
Kept(dir, dir_after) ==
    \A n \in DOMAIN dir : n \in DOMAIN dir_after /\ dir_after[n] = dir[n]

\* C8: no call of process_folder, the first or a repeated one, overwrites a
\* file of input_dir/ or other/ or changes the number of files that hold a
\* content (none is duplicated, none is lost); and a call on a subfolder
\* with no image left at the top level moves no file and leaves the names
\* and the contents of input_dir/ and other/ as they were.
C8_RouterResume ==
    [][ runs' = runs + 1 =>
          /\ Kept(input_dir, input_dir')
          /\ Kept(other, other')
          /\ \A c \in Contents : Copies(c)' = Copies(c)
          /\ Contents' = Contents
          /\ (\A n \in DOMAIN top : ~IsImage(n)) =>
                /\ moved' = {}
                /\ input_dir' = input_dir
                /\ other' = other
                /\ top' = top ]_vars

\* C8 witness: the second call on a subfolder the first call has sorted:
\* files moved from the top level lie in input_dir/ and in other/, no image
\* is left at the top level and the last call moved nothing.
C8_Witness ==
    /\ runs = 2
    /\ moved = {}
    /\ \A n \in DOMAIN top : ~IsImage(n)
    /\ \E n \in DOMAIN input_dir : StartsWith(input_dir[n], "top/")
    /\ \E n \in DOMAIN other : StartsWith(other[n], "top/")

\* The directory the File Router sends the image to.
Destination(name) == IF ThermalName(name) THEN input_dir ELSE other

\* C9: when the destination of a top-level image already holds a file of
\* its name, a call of process_folder does not move the image: it stays at
\* the top level with its content, the file at the destination keeps its
\* content, and no file of other/ or input_dir/ is replaced or removed.
C9_SkipIfExists ==
    [][ runs' = runs + 1 =>
          /\ \A n \in DOMAIN top :
               (IsImage(n) /\ Exists(platform, Destination(n), n)) =>
                  /\ n \in DOMAIN top'
                  /\ top'[n] = top[n]
                  /\ n \notin moved'
          /\ Kept(other, other')
          /\ Kept(input_dir, input_dir') ]_vars

\* C9 witness: a call reported an existing file: the image is still at the
\* top level and the file of its name at the destination is the one that
\* was there before.
C9_Witness ==
    /\ runs >= 1
    /\ \E n \in skipped :
         /\ n \in DOMAIN top
         /\ top[n] = "top/" \o n
         /\ n \in DOMAIN Destination(n)
         /\ ~StartsWith(Destination(n)[n], "top/")

(***************************************************************************)
(* Claims about the decode stage (SpecDecode).                             *)
(***************************************************************************)
\* The decoder wrote a buffer for the image that cannot be given a size:
\* it is empty or the search cannot start on it.
BadBuffer(f) ==
    /\ IsSupported(f)
    /\ sdk_out[f].rc = 0
    /\ ThermalSize(sdk_out[f].size, ImageSize[1], ImageSize[2]).kind # "size"

\* The decode stage is over: an exception has left it or every subfolder
\* has been processed.
DecodeEnded ==
    \/ decode_pc = "raised"
    \/ decode_pc = "returned" /\ folders_done = folders_total

\* C12: when the decoder exits with zero for every image and the buffer of
\* some image is empty or cannot be factored, the stage ends with that image
\* skipped (no raster is written from it), every other image of the folder
\* converted and every subfolder processed.
C12_BadBufferConfinedToImage ==
    ( /\ DecodeEnded
      /\ \A f \in DOMAIN input_dir : IsSupported(f) => sdk_out[f].rc = 0
      /\ \E f \in DOMAIN input_dir : BadBuffer(f) )
    => /\ \A f \in DOMAIN input_dir :
            BadBuffer(f) => \A t \in DOMAIN out_dir : out_dir[t] # "tiff/" \o f
       /\ \A f \in DOMAIN input_dir :
            (IsSupported(f) /\ ~BadBuffer(f)) => TiffName(f) \in DOMAIN out_dir
       /\ folders_done = folders_total

(***************************************************************************)
(* Claims about the reattachment stage (SpecReattach).                     *)
(***************************************************************************)
\* A run of the external tool for the pair exited non-zero.
ToolFailed(d) == d.bulk = "nonzero" \/ d.xmp = "nonzero"

\* process_folder has loaded the store, found pairs and returned.
LoopReturned ==
    /\ rpc = "returned"
    /\ metadata_dict.kind = "dict"
    /\ matches # {}

\* C14: a pair for which the bulk copy or the second pass exited non-zero
\* is a skip: _copy_metadata_to_tiff does not report it as a success, the
\* success count process_folder returns counts only the other pairs, and
\* the loop reaches every pair.
C14_ToolFailureIsSkip ==
    /\ \A p \in DOMAIN handled : ToolFailed(handled[p]) => ~handled[p].returned
    /\ LoopReturned =>
          /\ DOMAIN handled = matches
          /\ result.success <= Cardinality({p \in matches : ~ToolFailed(handled[p])})

\* The Metadata Store holds a record under the pair's source filename.
HasRecord(p) == p[1] \in DOMAIN metadata_dict.d

\* C15: process_folder returns (success, total) with total the number of
\* pairs found and 0 <= success <= total; a pair whose source filename
\* (with extension) has no record in the loaded store gets no run of the
\* external tool, its raster keeps its content and it is not counted as a
\* success, and the loop still reaches every pair.
C15_CountsAndMissingRecord ==
    /\ \A p \in DOMAIN handled :
          ~HasRecord(p) =>
             /\ handled[p].invoked = 0
             /\ ~handled[p].returned
             /\ out_dir[p[2]] = "out_dir/" \o p[2]
    /\ success_count <= Cardinality({p \in DOMAIN handled : HasRecord(p)})
    /\ LoopReturned =>
          /\ result.kind = "tuple"
          /\ result.total = Cardinality(matches)
          /\ 0 <= result.success
          /\ result.success <= result.total
          /\ result.success <= Cardinality({p \in matches : HasRecord(p)})
          /\ DOMAIN handled = matches

\* C15 witness: process_folder has returned for two pairs, one without a
\* record and one with a record that was copied with success.
C15_Witness ==
    /\ LoopReturned
    /\ result.total = 2
    /\ result.success = 1
    /\ \E p, q \in matches :
         /\ ~HasRecord(p)
         /\ handled[p].invoked = 0
         /\ HasRecord(q)
         /\ handled[q].returned

\* C16: the temporary argument file of the XMP pass no longer exists when
\* _copy_metadata_to_tiff returns, on every path: the pass succeeded, the
\* tool exited non-zero, or writing the file or launching the tool raised.
C16_TempArgsRemoved ==
    /\ temp_args = {}
    /\ \A p \in DOMAIN handled : ~handled[p].temp_left

\* The extraction stage is over: process_all returned, or the constructor
\* raised and run_all re-raised.
ExtractionStageOver == scratch_pc \in {"ended", "caught", "raised"}

\* C17: every scratch file and directory of the extraction stage is gone
\* when the stage ends, on the success path and on every exception path:
\* the per-image copy once extract_metadata has returned, and the per-run
\* directory the constructor created once the stage has ended or failed.
C17_ScratchGone ==
    /\ scratch_pc \in {"ready", "ended", "caught", "raised"} => temp_jpg = {}
    /\ ExtractionStageOver => ~self_temp_dir

\* C18: after every decode run of _process_single_folder, also one that
\* finds no image or fails part-way, out_dir/ holds no file from before the
\* run: every file in it is <stem>.tiff written in this run for a supported
\* image that is in input_dir/.
C18_OutDirRecreated ==
    decode_pc \in {"returned", "raised"} =>
       \A n \in DOMAIN out_dir :
          \E f \in DOMAIN input_dir :
             /\ IsSupported(f)
             /\ n = TiffName(f)
             /\ out_dir[n] = "tiff/" \o f

\* C18 witness: a run that failed part-way after it wrote a raster, in a
\* subfolder whose out_dir/ held a raster of the same name and another file
\* before the run.
C18_Witness ==
    /\ decode_pc = "raised"
    /\ destroyed = {"A_T.tiff", "old.tiff"}
    /\ DOMAIN out_dir = {"A_T.tiff"}

\* input_dir/ holds at least one file whose extension is .jpg or .JPG.
AlreadySorted == \E n \in DOMAIN input_dir : Suffix(n) \in {".jpg", ".JPG"}

\* The number of records the last call of process_folder extracted for the
\* image.
ExtractedTimes(name) ==
    Cardinality({i \in 1..Len(all_metadata) : all_metadata[i]["ImageName"] = name})

\* C19: a call of process_folder that finds a .jpg/.JPG file in input_dir/
\* moves no file, leaves the top level, input_dir/ and other/ as they were,
\* and extracts the metadata of exactly the JPG files of input_dir/, each
\* once, whatever the end of their names: one record for each file the tool
\* reads a retained tag from and no other record.
C19_ShortCircuit ==
    [][ (runs' = runs + 1 /\ AlreadySorted) =>
          /\ moved' = {}
          /\ top' = top
          /\ other' = other
          /\ input_dir' = input_dir
          /\ \A n \in DOMAIN input_dir :
               Lower(Suffix(n)) = ".jpg" =>
                  ExtractedTimes(n)' = IF input_dir[n] \in usable THEN 1 ELSE 0
          /\ \A i \in 1..Len(all_metadata') :
               all_metadata'[i]["ImageName"] \in DOMAIN input_dir ]_vars

\* The first token of the header of metadata.txt as the loader reads it
\* (line 91); an empty file has the empty token.
HeaderToken ==
    IF metadata_txt.lines = <<>> THEN "" ELSE ParseLine(metadata_txt.lines[1])[1]

\* metadata.txt is absent or its first header token is not ImageName.
StoreUnreadable ==
    \/ metadata_txt.kind = "absent"
    \/ HeaderToken # "ImageName"

C21_SizeIndependentOfCache ==
    (recovered[1] # None /\ recovered[2] # None) => recovered[1] = recovered[2]

\* C21 witness: both runs have converted the image, a buffer of another
\* size than declared; one run had remembered a size that fits the buffer
\* and is not the size recovered, the other had remembered none.
C21_Witness ==
    /\ recovered[1] # None
    /\ recovered[2] # None
    /\ recovered[1].kind = "size"
    /\ NeedsSearch(image.n, image.w, image.h)
    /\ last_thermal_size[1].kind = "size"
    /\ last_thermal_size[1].width * last_thermal_size[1].height = image.n
    /\ last_thermal_size[1] # recovered[1]
    /\ last_thermal_size[2] = None

=============================================================================
